---- MODULE Spec2Model ----
(***************************************************************************)
(* State-machine model of the saccosphere front end: the session hook      *)
(* (useAuth), the shared HTTP client (lib/axios.ts) with its interceptors, *)
(* and the data-fetching hooks.  Network requests are modelled as          *)
(* messages in flight; a request is dispatched by a Start action and its   *)
(* continuation (the code after the await) runs in a Settle action, with   *)
(* the response chosen from a bounded set.                                 *)
(***************************************************************************)
EXTENDS Integers, Sequences, FiniteSets, Bags, TLC

VARIABLES
    storage,   \* localStorage: the two token slots
    auth,      \* the state of each useAuth instance
    reqs,      \* requests of the session operations and of the shared client in flight
    hook,      \* which data-fetching hook the modelled hook instance is
               \* (or "DataTable", when the table component is modelled)
    hk,        \* the state of that hook (or component) instance
    fetches,   \* the GET requests of that hook instance in flight
    settled,   \* the fetch whose continuation ran in the last step, if any
    calls,     \* how many operations have been called so far
    last,      \* the last step taken
    route      \* the router: location, what the route guard rendered, and
               \* a navigation that was requested and not yet rendered

sessionVars == <<storage, auth, reqs>>
fetchVars == <<hook, hk, fetches, settled>>
vars == <<storage, auth, reqs, hook, hk, fetches, settled, calls, last, route>>

(***************************************************************************)
(* Bounds of the model                                                     *)
(***************************************************************************)
\* operations called in one run (each login, registerUser, changePassword,
\* logout, request through the shared client, or fetch counts as one)
MaxCalls == 3

(***************************************************************************)
(* JavaScript values                                                       *)
(***************************************************************************)
\* null / undefined / a missing key, for string-valued slots
Null == "<null>"

\* JSON values of a response payload
Absent == [t |-> "absent"]
Str(s) == [t |-> "str", s |-> s]
Arr(q) == [t |-> "arr", els |-> q]

\* truthiness of a string-or-null slot: null, undefined and "" are falsy
TruthyS(s) == s # Null /\ s # ""

\* a || b on string-or-null slots
OrS(a, b) == IF TruthyS(a) THEN a ELSE b

\* truthiness of a JSON value
Truthy(v) ==
    CASE v.t = "absent" -> FALSE
      [] v.t = "str" -> v.s # ""
      [] OTHER -> TRUE

\* an object payload: its own enumerable properties in insertion order,
\* a sequence of <<key, value>> pairs
Obj(kv) == [t |-> "obj", kv |-> kv]

\* data?.k
Get(data, k) ==
    IF data.t = "obj" /\ \E n \in 1..Len(data.kv) : data.kv[n][1] = k
    THEN data.kv[CHOOSE n \in 1..Len(data.kv) : data.kv[n][1] = k][2]
    ELSE Absent

\* a JSON value used as a message string
AsMsg(v) == IF v.t = "str" THEN v.s ELSE Null

\* Array.isArray(v) ? v[0] : v, used as a message string
FirstOrSelf(v) ==
    IF v.t = "arr"
    THEN (IF Len(v.els) > 0 THEN v.els[1] ELSE Null)
    ELSE AsMsg(v)

\* v?.[0] for an array or missing value
FirstOf(v) ==
    IF v.t = "arr" /\ Len(v.els) > 0 THEN v.els[1] ELSE Null

\* q.join(', ') for a sequence of strings
RECURSIVE Join(_)
Join(q) ==
    IF Len(q) = 0 THEN ""
    ELSE IF Len(q) = 1 THEN q[1]
    ELSE q[1] \o ", " \o Join(Tail(q))

\* [v].flat() for one property value: an array contributes its elements
FlatOne(v) ==
    CASE v.t = "arr" -> v.els
      [] v.t = "str" -> <<v.s>>
      [] OTHER -> <<>>

RECURSIVE FlatValues(_)
FlatValues(kv) ==
    IF Len(kv) = 0 THEN <<>>
    ELSE FlatOne(kv[1][2]) \o FlatValues(Tail(kv))

\* Object.values(s) of a string: its characters (given for the string
\* payloads the model draws)
Chars(s) ==
    CASE s = "" -> <<>>
      [] s = "no" -> <<"n", "o">>
      [] OTHER -> <<s>>

\* Object.values(data || {}).flat().join(', ')
JoinFlat(data) ==
    CASE data.t = "obj" -> Join(FlatValues(data.kv))
      [] data.t = "str" -> Join(Chars(data.s))
      [] OTHER -> ""

\* Object.entries(data || {}).map(([key, value]) => `${key}: ${first}`)
EntryLabels(kv) ==
    [n \in 1..Len(kv) |-> kv[n][1] \o ": " \o FirstOrSelf(kv[n][2])]

\* ... .join(', ')
JoinEntries(data) == IF data.t = "obj" THEN Join(EntryLabels(data.kv)) ELSE ""

(***************************************************************************)
(* Responses of the transport                                              *)
(***************************************************************************)
Ok(body) == [kind |-> "ok", status |-> 200, statusText |-> "OK", data |-> body]
Http(status, statusText, data) ==
    [kind |-> "http", status |-> status, statusText |-> statusText, data |-> data]
\* the request was made and no response was received (also the 10 s timeout)
Network == [kind |-> "network", status |-> 0, statusText |-> "", data |-> Absent]
\* the request's signal was aborted: AxiosError with code ERR_CANCELED
Canceled == [kind |-> "canceled", status |-> 0, statusText |-> "", data |-> Absent]

\* error responses drawn by the session operations
ErrorResponses ==
    { Http(401, "Unauthorized", Absent),
      Http(500, "Internal Server Error", Obj(<< <<"detail", Str("bad detail")>> >>)),
      Network }

\* bodies of a successful login / register response (LoginResponse)
Body(access, token, nestedAccess, nestedRefresh, refresh) ==
    [access |-> access, token |-> token,
     tokens |-> [access |-> nestedAccess, refresh |-> nestedRefresh],
     refresh |-> refresh]

LoginBodies ==
    { Body("t1", Null, Null, Null, "t2"),     \* {access, refresh}
      Body(Null, "t2", Null, Null, Null),     \* {token}
      Body(Null, Null, "t2", Null, Null),     \* {tokens: {access}}
      Body(Null, Null, "t2", "t1", Null),     \* {tokens: {access, refresh}}
      Body("t1", "t2", "t2", "t1", "t2"),     \* every shape at once
      Body("", "t2", "t1", "t1", ""),         \* empty strings at top level
      Body(Null, Null, "t1", "t2", "t1"),     \* nested access, both refresh
      Body(Null, Null, Null, Null, "t2"),     \* a refresh token alone
      Body(Null, Null, Null, Null, Null) }    \* {}

(***************************************************************************)
(* Persistent storage (localStorage) and the session hook's state          *)
(***************************************************************************)
\* the tokens the server issues in the modelled run, and the tokens an
\* earlier session may have left in localStorage
Tokens == {"t1", "t2"}
StaleAccess == "t0"
StaleRefresh == "r0"

\* localStorage.removeItem of both token keys
ClearedStorage == [accessToken |-> Null, refreshToken |-> Null]

AuthInstances == {"form", "guard"}
\* the instances whose component calls the hook's operations
Callers == {"form"}

\* useState initial values of one useAuth instance
AuthInitial ==
    [phase |-> "rendered", isLoading |-> FALSE, isChangingPassword |-> FALSE,
     error |-> Null, passwordChangeError |-> Null, token |-> Null,
     isAuthenticated |-> FALSE]

\* the last step taken: which operation ran, on what response, and what it
\* raised to its caller ("none", "original" error object, or a "new" Error)
\* `raised` is "none", "original" (the error object that was caught) or the
\* message of a newly created Error; `body` is the body of a successful
\* login / register response; `hdr` the Authorization header of the request
\* that settled; `before` the stored access token and `wasAuth` the
\* instance's isAuthenticated before the step
NoBody == [t |-> "none"]

NoEvent == [op |-> "none", inst |-> Null, kind |-> Null, status |-> 0,
            raised |-> "none", body |-> NoBody, hdr |-> Null,
            before |-> Null, wasAuth |-> FALSE]

Event(op, inst, resp, raised, hdr) ==
    [op |-> op, inst |-> inst, kind |-> resp.kind, status |-> resp.status,
     raised |-> raised,
     body |-> IF op \in {"loginSettle", "registerSettle", "mutateSettle"}
                 /\ resp.kind = "ok"
              THEN resp.data ELSE NoBody,
     hdr |-> hdr,
     before |-> storage.accessToken,
     wasAuth |-> inst \in DOMAIN auth /\ auth[inst].isAuthenticated]

Local == [kind |-> "local", status |-> 0, data |-> Absent]

\* one more operation is called
Call == calls < MaxCalls /\ calls' = calls + 1

Req(op, inst, hdr) == [op |-> op, inst |-> inst, hdr |-> hdr]

Send(r) == reqs (+) SetToBag({r})
Receive(r) == reqs (-) SetToBag({r})

(***************************************************************************)
(* lib/axios.ts: the shared client's interceptors                          *)
(***************************************************************************)
\* variant: the interceptor reads the other token slot
RequestInterceptorRefreshSlot(store) ==
    IF TruthyS(store.refreshToken) THEN "Bearer " \o store.refreshToken ELSE Null

\* the Authorization header the request interceptor sets
RequestInterceptor(store) ==
    IF TruthyS(store.accessToken) THEN "Bearer " \o store.accessToken ELSE Null

\* variant: the stored tokens are never cleared
ResponseInterceptorNoClear(store, resp) == store

\* variant: every error response clears the stored tokens
ResponseInterceptorAnyError(store, resp) ==
    IF resp.kind = "http" THEN ClearedStorage ELSE store

\* the storage after the response interceptor has seen resp
ResponseInterceptor(store, resp) ==
    IF resp.kind = "http" /\ resp.status = 401 THEN ClearedStorage ELSE store

(***************************************************************************)
(* useAuth                                                                 *)
(***************************************************************************)
\* the mount effect: restore the session from localStorage
InitEffect(i) ==
    /\ auth[i].phase = "rendered"
    /\ auth' = [auth EXCEPT ![i] =
                 IF TruthyS(storage.accessToken)
                 THEN [@ EXCEPT !.phase = "ready", !.token = storage.accessToken,
                                !.isAuthenticated = TRUE]
                 ELSE [@ EXCEPT !.phase = "ready"]]
    /\ last' = Event("initEffect", i, Local, "none", Null)
    /\ UNCHANGED <<storage, reqs>>
    /\ UNCHANGED fetchVars
    /\ UNCHANGED route
    /\ UNCHANGED calls

\* variant: top-level token is probed before top-level access
ExtractAccessTokenFirst(body) ==
    OrS(OrS(body.token, body.access), body.tokens.access)

ExtractAccess(body) == OrS(OrS(body.access, body.token), body.tokens.access)
ExtractRefresh(body) == OrS(body.refresh, body.tokens.refresh)

\* localStorage after the tokens of a response have been saved
SaveTokens(store, accessToken, refreshToken) ==
    [accessToken |-> accessToken,
     refreshToken |-> IF TruthyS(refreshToken) THEN refreshToken
                      ELSE store.refreshToken]

NoTokenMessage == "No access token received from server"
NetworkMessage == "Network error. Please check your connection."

LoginErrorMessage(resp) ==
    IF resp.kind = "http" THEN
        LET d == resp.data IN
        IF Truthy(Get(d, "detail")) THEN AsMsg(Get(d, "detail"))
        ELSE IF Truthy(Get(d, "message")) THEN AsMsg(Get(d, "message"))
        ELSE IF Truthy(Get(d, "error")) THEN AsMsg(Get(d, "error"))
        ELSE IF Truthy(Get(d, "non_field_errors"))
             THEN FirstOrSelf(Get(d, "non_field_errors"))
        ELSE IF d.t = "str" THEN d.s
        ELSE IF Truthy(Get(d, "email")) THEN FirstOrSelf(Get(d, "email"))
        ELSE IF Truthy(Get(d, "password")) THEN FirstOrSelf(Get(d, "password"))
        ELSE IF resp.status = 401 THEN "Invalid credentials"
        ELSE IF resp.status = 400
             THEN "Invalid request. Please check your credentials."
        ELSE "Login failed: " \o OrS(resp.statusText, "Unknown error")
    ELSE IF resp.kind = "network" THEN NetworkMessage
    ELSE "An error occurred. Please try again."

LoginStart(i) ==
    /\ Call
    /\ auth[i].phase = "ready"
    /\ auth' = [auth EXCEPT ![i].isLoading = TRUE, ![i].error = Null]
    /\ reqs' = Send(Req("login", i, Null))
    /\ last' = Event("loginStart", i, Local, "none", Null)
    /\ UNCHANGED storage
    /\ UNCHANGED fetchVars
    /\ UNCHANGED route

\* variant: login throws the error it caught, as registerUser does
LoginFailedRethrown(i, resp, msg) ==
    /\ auth' = [auth EXCEPT ![i].error = msg, ![i].isAuthenticated = FALSE,
                            ![i].token = Null, ![i].isLoading = FALSE]
    /\ storage' = ClearedStorage
    /\ last' = Event("loginSettle", i, resp, "original", Null)

\* the catch block of login, then finally
LoginFailed(i, resp, msg) ==
    /\ auth' = [auth EXCEPT ![i].error = msg, ![i].isAuthenticated = FALSE,
                            ![i].token = Null, ![i].isLoading = FALSE]
    /\ storage' = ClearedStorage
    /\ last' = Event("loginSettle", i, resp, msg, Null)

\* variant: a response without an access token is tolerated, as in
\* registerUser
LoginSucceededTolerant(i, resp) ==
    LET accessToken == ExtractAccess(resp.data)
        refreshToken == ExtractRefresh(resp.data)
    IN  /\ IF TruthyS(accessToken)
           THEN /\ storage' = SaveTokens(storage, accessToken, refreshToken)
                /\ auth' = [auth EXCEPT ![i].token = accessToken,
                                        ![i].isAuthenticated = TRUE,
                                        ![i].error = Null,
                                        ![i].isLoading = FALSE]
           ELSE /\ storage' = storage
                /\ auth' = [auth EXCEPT ![i].error = Null,
                                        ![i].isLoading = FALSE]
        /\ last' = Event("loginSettle", i, resp, "none", Null)

\* the try block of login after a successful response, then finally
LoginSucceeded(i, resp) ==
    LET accessToken == ExtractAccess(resp.data)
        refreshToken == ExtractRefresh(resp.data)
    IN  IF ~TruthyS(accessToken)
        THEN LoginFailed(i, resp, NoTokenMessage)
        ELSE /\ storage' = SaveTokens(storage, accessToken, refreshToken)
             /\ auth' = [auth EXCEPT ![i].token = accessToken,
                                     ![i].isAuthenticated = TRUE,
                                     ![i].error = Null, ![i].isLoading = FALSE]
             /\ last' = Event("loginSettle", i, resp, "none", Null)

LoginSettle(i, resp) ==
    /\ Req("login", i, Null) \in BagToSet(reqs)
    /\ reqs' = Receive(Req("login", i, Null))
    /\ IF resp.kind = "ok"
       THEN LoginSucceeded(i, resp)
       ELSE LoginFailed(i, resp, LoginErrorMessage(resp))
    /\ UNCHANGED fetchVars
    /\ UNCHANGED route
    /\ UNCHANGED calls

RegisterErrorMessage(resp) ==
    IF resp.kind = "http" THEN
        LET d == resp.data IN
        OrS(AsMsg(Get(d, "message")),
        OrS(AsMsg(Get(d, "error")),
        OrS(FirstOf(Get(d, "email")),
        OrS(FirstOf(Get(d, "password")),
            "Registration failed: " \o resp.statusText))))
    ELSE IF resp.kind = "network" THEN NetworkMessage
    ELSE "Registration failed. Please try again."

RegisterStart(i) ==
    /\ Call
    /\ auth[i].phase = "ready"
    /\ auth' = [auth EXCEPT ![i].isLoading = TRUE, ![i].error = Null]
    /\ reqs' = Send(Req("register", i, Null))
    /\ last' = Event("registerStart", i, Local, "none", Null)
    /\ UNCHANGED storage
    /\ UNCHANGED fetchVars
    /\ UNCHANGED route

\* the catch block of registerUser, then finally
RegisterFailed(i, resp, msg) ==
    /\ auth' = [auth EXCEPT ![i].error = msg, ![i].isAuthenticated = FALSE,
                            ![i].token = Null, ![i].isLoading = FALSE]
    /\ storage' = storage
    /\ last' = Event("registerSettle", i, resp, "original", Null)

\* variant: a response without an access token is a failure, as in login
RegisterSucceededStrict(i, resp) ==
    LET accessToken == ExtractAccess(resp.data)
        refreshToken == ExtractRefresh(resp.data)
    IN  IF ~TruthyS(accessToken)
        THEN RegisterFailed(i, resp, NoTokenMessage)
        ELSE /\ storage' = SaveTokens(storage, accessToken, refreshToken)
             /\ auth' = [auth EXCEPT ![i].token = accessToken,
                                     ![i].isAuthenticated = TRUE,
                                     ![i].error = Null, ![i].isLoading = FALSE]
             /\ last' = Event("registerSettle", i, resp, "none", Null)

\* the try block of registerUser after a successful response, then finally
RegisterSucceeded(i, resp) ==
    LET accessToken == ExtractAccess(resp.data)
        refreshToken == ExtractRefresh(resp.data)
    IN  /\ IF TruthyS(accessToken)
           THEN /\ storage' = SaveTokens(storage, accessToken, refreshToken)
                /\ auth' = [auth EXCEPT ![i].token = accessToken,
                                        ![i].isAuthenticated = TRUE,
                                        ![i].error = Null,
                                        ![i].isLoading = FALSE]
           ELSE /\ storage' = storage
                /\ auth' = [auth EXCEPT ![i].error = Null,
                                        ![i].isLoading = FALSE]
        /\ last' = Event("registerSettle", i, resp, "none", Null)

RegisterSettle(i, resp) ==
    /\ Req("register", i, Null) \in BagToSet(reqs)
    /\ reqs' = Receive(Req("register", i, Null))
    /\ IF resp.kind = "ok"
       THEN RegisterSucceeded(i, resp)
       ELSE RegisterFailed(i, resp, RegisterErrorMessage(resp))
    /\ UNCHANGED fetchVars
    /\ UNCHANGED route
    /\ UNCHANGED calls

MinPasswordLength == 6

MismatchMessage == "New passwords do not match"
TooShortMessage == "New password must be at least 6 characters long"
NotLoggedInMessage == "You must be logged in to change your password"

\* ChangePasswordData drawn by the model (old_password is not inspected)
PasswordInputs ==
    { [new_password |-> "abcdef", confirm_password |-> "abcdef"],
      [new_password |-> "abc12", confirm_password |-> "abc12"],
      [new_password |-> "abcdef", confirm_password |-> "xyzxyz"] }

ChangePasswordErrorMessage(resp) ==
    IF resp.kind = "http" THEN
        LET d == resp.data IN
        OrS(AsMsg(Get(d, "message")),
        OrS(AsMsg(Get(d, "error")),
        OrS(AsMsg(Get(d, "detail")),
        OrS(FirstOf(Get(d, "old_password")),
        OrS(FirstOf(Get(d, "new_password")),
        OrS(JoinFlat(d),
            "Password change failed: " \o resp.statusText))))))
    ELSE IF resp.kind = "network" THEN NetworkMessage
    ELSE "Failed to change password. Please try again."

\* variant: the in-progress flag is not reset before the validation error
\* is thrown
ChangePasswordLocalBusy(i, msg, raised) ==
    /\ auth' = [auth EXCEPT ![i].passwordChangeError = msg,
                            ![i].isChangingPassword = TRUE]
    /\ last' = Event("changePasswordLocal", i, Local, raised, Null)
    /\ UNCHANGED <<storage, reqs>>

\* a changePassword call that ends before any request is made
ChangePasswordLocal(i, msg, raised) ==
    /\ auth' = [auth EXCEPT ![i].passwordChangeError = msg,
                            ![i].isChangingPassword = FALSE]
    /\ last' = Event("changePasswordLocal", i, Local, raised, Null)
    /\ UNCHANGED <<storage, reqs>>

ChangePasswordStart(i, data) ==
    /\ Call
    /\ auth[i].phase = "ready"
    /\ IF data.new_password # data.confirm_password
       THEN ChangePasswordLocal(i, MismatchMessage, MismatchMessage)
       ELSE IF Len(data.new_password) < MinPasswordLength
       THEN ChangePasswordLocal(i, TooShortMessage, TooShortMessage)
       ELSE IF ~TruthyS(storage.accessToken)
       THEN ChangePasswordLocal(i, NotLoggedInMessage, "original")
       ELSE /\ auth' = [auth EXCEPT ![i].isChangingPassword = TRUE,
                                    ![i].passwordChangeError = Null]
            /\ reqs' = Send(Req("changePassword", i,
                                "Bearer " \o storage.accessToken))
            /\ last' = Event("changePasswordStart", i, Local, "none", Null)
            /\ UNCHANGED storage
    /\ UNCHANGED fetchVars
    /\ UNCHANGED route

ChangePasswordSettle(i, hdr, resp) ==
    /\ Req("changePassword", i, hdr) \in BagToSet(reqs)
    /\ reqs' = Receive(Req("changePassword", i, hdr))
    /\ IF resp.kind = "ok"
       THEN /\ auth' = [auth EXCEPT ![i].passwordChangeError = Null,
                                    ![i].isChangingPassword = FALSE]
            /\ last' = Event("changePasswordSettle", i, resp, "none", hdr)
       ELSE /\ auth' = [auth EXCEPT
                          ![i].passwordChangeError = ChangePasswordErrorMessage(resp),
                          ![i].isChangingPassword = FALSE]
            /\ last' = Event("changePasswordSettle", i, resp, "original", hdr)
    /\ UNCHANGED storage
    /\ UNCHANGED fetchVars
    /\ UNCHANGED route
    /\ UNCHANGED calls

\* variant: only the access token is removed
LogoutKeepsRefresh(i) ==
    /\ Call
    /\ auth[i].phase = "ready"
    /\ storage' = [storage EXCEPT !.accessToken = Null]
    /\ auth' = [auth EXCEPT ![i].token = Null, ![i].isAuthenticated = FALSE,
                            ![i].error = Null]
    /\ last' = Event("logout", i, Local, "none", Null)
    /\ UNCHANGED reqs
    /\ UNCHANGED fetchVars
    /\ UNCHANGED route

Logout(i) ==
    /\ Call
    /\ auth[i].phase = "ready"
    /\ storage' = ClearedStorage
    /\ auth' = [auth EXCEPT ![i].token = Null, ![i].isAuthenticated = FALSE,
                            ![i].error = Null]
    /\ last' = Event("logout", i, Local, "none", Null)
    /\ UNCHANGED reqs
    /\ UNCHANGED fetchVars
    /\ UNCHANGED route

(***************************************************************************)
(* Any request made through the shared client (a fetch, a mutation, join   *)
(* sacco, a savings transaction), as far as the session is concerned       *)
(***************************************************************************)
ClientStart ==
    /\ Call
    /\ reqs' = Send(Req("client", Null, RequestInterceptor(storage)))
    /\ last' = Event("clientStart", Null, Local, "none", Null)
    /\ UNCHANGED <<storage, auth>>
    /\ UNCHANGED fetchVars
    /\ UNCHANGED route

ClientSettle(hdr, resp) ==
    /\ Req("client", Null, hdr) \in BagToSet(reqs)
    /\ reqs' = Receive(Req("client", Null, hdr))
    /\ storage' = ResponseInterceptor(storage, resp)
    /\ last' = Event("clientSettle", Null, resp, "none", hdr)
    /\ UNCHANGED auth
    /\ UNCHANGED fetchVars
    /\ UNCHANGED route
    /\ UNCHANGED calls

Headers == {Null} \cup {"Bearer " \o t : t \in Tokens \cup {StaleAccess}}

(***************************************************************************)
(* The data-fetching hooks.  One hook instance is modelled; `hook` says    *)
(* which hook it is.                                                       *)
(***************************************************************************)
\* the hooks that keep an AbortController in a ref and pass its signal
ListHooks == {"useTransactions", "useSaccoDirectory", "usePaymentProviders",
              "useMemberships", "useServices", "useLoans"}
\* the list hooks that expose isError instead of an error message
FlagHooks == {"useServices", "useLoans"}
FetchHooks == ListHooks \cup {"useProfile", "useApi"}

EmptyList == Arr(<<>>)

\* the write operations of each hook
MutationsOf(h) ==
    CASE h = "useTransactions" -> {"createTransaction"}
      [] h = "useLoans" -> {"applyForLoan"}
      [] h = "useProfile" -> {"createProfile", "updateProfile"}
      [] OTHER -> {}

\* useState initial values of the hook instance; mut holds, for each write
\* operation, its error field (createError, applyError, updateError) and
\* its in-progress flag (isCreating, isApplying, isUpdating); phase is the
\* life cycle of the consuming component: "rendered" (its effects have not
\* run), "mounted", "unmounted".  After the unmount the fields record what
\* the continuations still pass to the state setters.
HookInitial(h) ==
    [data |-> IF h \in ListHooks THEN EmptyList ELSE Absent,
     isLoading |-> FALSE, error |-> Null, isError |-> FALSE,
     ref |-> "null",
     mut |-> [m \in MutationsOf(h) |-> [error |-> Null, inProgress |-> FALSE]],
     phase |-> "rendered"]

\* `Failed to fetch ...: ${statusText}` prefix of each hook
FetchFailedPrefix(h) ==
    CASE h = "useTransactions" -> "Failed to fetch transactions: "
      [] h = "useSaccoDirectory" -> "Failed to fetch saccos: "
      [] h = "usePaymentProviders" -> "Failed to fetch providers: "
      [] h = "useMemberships" -> "Failed to fetch memberships: "
      [] h = "useProfile" -> "Failed to fetch profile: "
      [] OTHER -> ""

\* the message of the TypeError raised by reading .results of null
NullResultsMessage == "Cannot read properties of null (reading 'results')"

\* AxiosError.message, which useApi records
AxiosMessage(resp) ==
    IF resp.kind = "http"
    THEN "Request failed with status code " \o ToString(resp.status)
    ELSE IF resp.kind = "network" THEN "Network Error"
    ELSE "canceled"

\* responses drawn for a GET of the hook instance
FetchBodies ==
    { Arr(<<"x">>),
      Obj(<< <<"results", Arr(<<"y">>)>> >>),
      Obj(<< <<"count", Str("0")>> >>),
      Obj(<< <<"results", Str("oops")>> >>),
      Str("ok"),
      Absent }

FetchErrors ==
    { Http(401, "Unauthorized", Absent),
      Http(404, "Not Found", Obj(<< <<"detail", Str("Not found.")>> >>)),
      Http(500, "Internal Server Error", Obj(<< <<"message", Str("boom")>> >>)),
      Network }

FetchResponses == {Ok(b) : b \in FetchBodies} \cup FetchErrors

NoResp == [kind |-> "none", status |-> 0, statusText |-> "", data |-> Absent]

\* a GET in flight: the header set at dispatch, whether the transport holds
\* its response, whether its signal was aborted, and whether it is the most
\* recently started fetch of the instance
Fetch(hdr, latest) ==
    [hdr |-> hdr, arrived |-> FALSE, resp |-> NoResp, aborted |-> FALSE,
     latest |-> latest]

NoFetch == [hdr |-> Null, arrived |-> FALSE, resp |-> NoResp, aborted |-> FALSE,
            latest |-> FALSE]

InFlightFetches == BagToSet(fetches)

Replace(fs, f, g) == (fs (-) SetToBag({f})) (+) SetToBag({g})

\* fs with no fetch marked as the most recent one
RECURSIVE Supersede(_)
Supersede(fs) ==
    IF \E f \in BagToSet(fs) : f.latest
    THEN LET f == CHOOSE f \in BagToSet(fs) : f.latest
         IN  Supersede(Replace(fs, f, [f EXCEPT !.latest = FALSE]))
    ELSE fs

\* variant: the previous request is not cancelled
AbortPreviousSkipped(fs) == fs

\* abortControllerRef.current.abort(): the request that carries the signal
\* of the controller in the ref, if still in flight, is cancelled
AbortPrevious(fs) ==
    IF \E f \in BagToSet(fs) : f.latest
    THEN LET f == CHOOSE f \in BagToSet(fs) : f.latest
         IN  Replace(fs, f, [f EXCEPT !.aborted = TRUE])
    ELSE fs

\* fetchMyTransactions, fetchSaccos, fetchProviders, fetchMemberships,
\* fetchServices, fetchMyLoans, fetchProfile, useApi.execute: up to the await
FetchStart ==
    /\ Call
    /\ LET aborted == IF hook \in ListHooks /\ hk.ref # "null"
                      THEN AbortPrevious(fetches) ELSE fetches
       IN  fetches' = Supersede(aborted)
                        (+) SetToBag({Fetch(RequestInterceptor(storage), TRUE)})
    /\ hk' = [hk EXCEPT !.isLoading = TRUE,
                        !.error = Null,
                        !.isError = FALSE,
                        !.ref = IF hook \in ListHooks THEN "set" ELSE @]
    /\ settled' = NoFetch
    /\ last' = Event("fetchStart", hook, Local, "none", Null)
    /\ UNCHANGED <<storage, hook>>
    /\ UNCHANGED <<auth, reqs>>
    /\ UNCHANGED route

\* the transport receives the response of a request that was not cancelled
FetchArrive(f, resp) ==
    /\ f \in InFlightFetches
    /\ ~f.aborted /\ ~f.arrived
    /\ fetches' = Replace(fetches, f, [f EXCEPT !.arrived = TRUE, !.resp = resp])
    /\ settled' = NoFetch
    /\ last' = Event("fetchArrive", hook, Local, "none", Null)
    /\ UNCHANGED <<storage, hook, hk>>
    /\ UNCHANGED <<auth, reqs>>
    /\ UNCHANGED route
    /\ UNCHANGED calls

\* what the awaited promise settles with
Outcome(f) == IF f.aborted THEN Canceled ELSE f.resp

\* the list hooks: the code after the await, with catch and finally
ListSettled(h, s, resp) ==
    IF resp.kind = "canceled" THEN [s EXCEPT !.isLoading = FALSE]
    ELSE IF resp.kind = "ok" /\ resp.data.t = "arr"
    THEN [s EXCEPT !.data = resp.data, !.error = Null, !.isError = FALSE,
                   !.isLoading = FALSE]
    ELSE IF resp.kind = "ok" /\ resp.data.t = "absent"
    THEN [s EXCEPT !.data = EmptyList,
                   !.error = IF h \in FlagHooks THEN @ ELSE NullResultsMessage,
                   !.isError = IF h \in FlagHooks THEN TRUE ELSE @,
                   !.isLoading = FALSE]
    ELSE IF resp.kind = "ok"
    THEN [s EXCEPT !.data = IF Truthy(Get(resp.data, "results"))
                            THEN Get(resp.data, "results") ELSE EmptyList,
                   !.error = Null, !.isError = FALSE, !.isLoading = FALSE]
    ELSE IF h \in FlagHooks
    THEN [s EXCEPT !.data = EmptyList, !.isError = TRUE, !.isLoading = FALSE]
    ELSE [s EXCEPT !.data = EmptyList,
                   !.error = IF resp.kind = "http"
                             THEN OrS(AsMsg(Get(resp.data, "message")),
                                  OrS(AsMsg(Get(resp.data, "error")),
                                      FetchFailedPrefix(h) \o resp.statusText))
                             ELSE NetworkMessage,
                   !.isLoading = FALSE]

\* useProfile.fetchProfile: the code after the await
ProfileSettled(s, resp) ==
    IF resp.kind = "ok"
    THEN [s EXCEPT !.data = resp.data, !.error = Null, !.isLoading = FALSE]
    ELSE IF resp.kind = "http" /\ resp.status = 404
    THEN [s EXCEPT !.data = Absent, !.error = Null, !.isLoading = FALSE]
    ELSE [s EXCEPT !.data = Absent,
                   !.error = IF resp.kind = "http"
                             THEN OrS(AsMsg(Get(resp.data, "message")),
                                  OrS(AsMsg(Get(resp.data, "error")),
                                  OrS(AsMsg(Get(resp.data, "detail")),
                                      FetchFailedPrefix("useProfile")
                                        \o resp.statusText)))
                             ELSE NetworkMessage,
                   !.isLoading = FALSE]

\* useApi.execute: the code after the await
ApiSettled(s, resp) ==
    IF resp.kind = "ok"
    THEN [s EXCEPT !.data = resp.data, !.isLoading = FALSE, !.error = Null]
    ELSE [s EXCEPT !.data = Absent, !.isLoading = FALSE,
                   !.error = AxiosMessage(resp)]

HookSettled(h, s, resp) ==
    CASE h \in ListHooks -> ListSettled(h, s, resp)
      [] h = "useProfile" -> ProfileSettled(s, resp)
      [] OTHER -> ApiSettled(s, resp)

\* the awaited promise of fetch f settles: the response interceptor, then
\* the hook's continuation
FetchSettle(f) ==
    /\ f \in InFlightFetches
    /\ f.aborted \/ f.arrived
    /\ fetches' = fetches (-) SetToBag({f})
    /\ storage' = ResponseInterceptor(storage, Outcome(f))
    /\ hk' = HookSettled(hook, hk, Outcome(f))
    /\ settled' = f
    /\ last' = Event("fetchSettle", hook, Outcome(f), "none", f.hdr)
    /\ UNCHANGED hook
    /\ UNCHANGED <<auth, reqs>>
    /\ UNCHANGED route
    /\ UNCHANGED calls

(***************************************************************************)
(* The life cycle of the component that uses a list hook                   *)
(***************************************************************************)
\* the list hooks with a mount effect that calls their fetch function and
\* whose cleanup aborts the controller in the ref (useLoans has no effect)
FetchesOnMount(h) == h \in ListHooks \ {"useLoans"}

\* the list hooks whose returned object holds the fetch function
\* (refetch, fetchMyTransactions, fetchMyLoans); useServices returns
\* services, isLoading and isError only
ExposesRefetch(h) == h \in ListHooks \ {"useServices"}

\* the effects of the first commit: the hook's mount effect, if it has one,
\* calls the fetch function
MountEffect ==
    /\ hk.phase = "rendered"
    /\ IF FetchesOnMount(hook)
       THEN /\ LET aborted == IF hk.ref # "null"
                              THEN AbortPrevious(fetches) ELSE fetches
               IN  fetches' = Supersede(aborted)
                                (+) SetToBag({Fetch(RequestInterceptor(storage), TRUE)})
            /\ hk' = [hk EXCEPT !.phase = "mounted",
                                !.isLoading = TRUE,
                                !.error = Null,
                                !.isError = FALSE,
                                !.ref = "set"]
       ELSE /\ fetches' = fetches
            /\ hk' = [hk EXCEPT !.phase = "mounted"]
    /\ settled' = NoFetch
    /\ last' = Event("mount", hook, Local, "none", Null)
    /\ UNCHANGED <<storage, hook>>
    /\ UNCHANGED <<auth, reqs>>
    /\ UNCHANGED route
    /\ UNCHANGED calls

\* the component calls the fetch function the hook returned
Refetch ==
    /\ hk.phase = "mounted"
    /\ ExposesRefetch(hook)
    /\ FetchStart

\* the component unmounts: the cleanup of the mount effect runs
Unmount ==
    /\ hk.phase = "mounted"
    /\ hk' = [hk EXCEPT !.phase = "unmounted"]
    /\ fetches' = IF FetchesOnMount(hook) /\ hk.ref # "null"
                  THEN AbortPrevious(fetches) ELSE fetches
    /\ settled' = NoFetch
    /\ last' = Event("unmount", hook, Local, "none", Null)
    /\ UNCHANGED <<storage, hook>>
    /\ UNCHANGED <<auth, reqs>>
    /\ UNCHANGED route
    /\ UNCHANGED calls

(***************************************************************************)
(* The write operations of the hooks: createTransaction, applyForLoan,     *)
(* createProfile, updateProfile.  Their requests go through the shared     *)
(* client.                                                                 *)
(***************************************************************************)
Mutations == {"createTransaction", "applyForLoan", "createProfile", "updateProfile"}
MutationHooks == {"useTransactions", "useLoans", "useProfile"}
CreateOperations == {"createTransaction", "applyForLoan"}

\* `Failed to ...: ${statusText}` prefix of each operation
MutationFailedPrefix(m) ==
    CASE m = "createTransaction" -> "Failed to create transaction: "
      [] m = "applyForLoan" -> "Failed to apply for loan: "
      [] m = "createProfile" -> "Failed to create profile: "
      [] OTHER -> "Failed to update profile: "

\* variant: detail, message and error are probed before the field errors
UpdateProfileErrorMessageDetailFirst(resp) ==
    LET d == resp.data IN
    IF Truthy(Get(d, "detail")) THEN AsMsg(Get(d, "detail"))
    ELSE IF Truthy(Get(d, "message")) THEN AsMsg(Get(d, "message"))
    ELSE IF Truthy(Get(d, "error")) THEN AsMsg(Get(d, "error"))
    ELSE IF Truthy(Get(d, "phone_number")) THEN FirstOrSelf(Get(d, "phone_number"))
    ELSE IF Truthy(Get(d, "bio")) THEN FirstOrSelf(Get(d, "bio"))
    ELSE IF Truthy(Get(d, "non_field_errors"))
         THEN FirstOrSelf(Get(d, "non_field_errors"))
    ELSE IF d.t = "str" THEN d.s
    ELSE IF TruthyS(JoinEntries(d)) THEN JoinEntries(d)
    ELSE MutationFailedPrefix("updateProfile")
           \o OrS(resp.statusText, "Unknown error")

\* updateProfile's catch: errorMessage for a server response
UpdateProfileErrorMessage(resp) ==
    LET d == resp.data IN
    IF Truthy(Get(d, "phone_number")) THEN FirstOrSelf(Get(d, "phone_number"))
    ELSE IF Truthy(Get(d, "bio")) THEN FirstOrSelf(Get(d, "bio"))
    ELSE IF Truthy(Get(d, "non_field_errors"))
         THEN FirstOrSelf(Get(d, "non_field_errors"))
    ELSE IF Truthy(Get(d, "detail")) THEN AsMsg(Get(d, "detail"))
    ELSE IF Truthy(Get(d, "message")) THEN AsMsg(Get(d, "message"))
    ELSE IF Truthy(Get(d, "error")) THEN AsMsg(Get(d, "error"))
    ELSE IF d.t = "str" THEN d.s
    ELSE IF TruthyS(JoinEntries(d)) THEN JoinEntries(d)
    ELSE MutationFailedPrefix("updateProfile")
           \o OrS(resp.statusText, "Unknown error")

\* the catch blocks of the write operations: errorMessage
MutationErrorMessage(m, resp) ==
    IF resp.kind = "network" THEN NetworkMessage
    ELSE IF m = "updateProfile" THEN UpdateProfileErrorMessage(resp)
    ELSE LET d == resp.data IN
         OrS(AsMsg(Get(d, "message")),
         OrS(AsMsg(Get(d, "error")),
         OrS(AsMsg(Get(d, "detail")),
         OrS(JoinFlat(d),
             MutationFailedPrefix(m) \o resp.statusText))))

\* variant: the new record is put at the end of the list
PrependAtEnd(rec, data) ==
    Arr((IF data.t = "arr" THEN data.els ELSE <<>>) \o <<AsMsg(rec)>>)

\* [response.data, ...prev] for a list prev (the hook's list state)
Prepend(rec, data) ==
    Arr(<<AsMsg(rec)>> \o (IF data.t = "arr" THEN data.els ELSE <<>>))

\* variant: a failed write operation resets the loaded data, as a failed
\* fetch does
MutationSettledClearing(m, s, resp) ==
    IF resp.kind = "ok"
    THEN [s EXCEPT !.data = IF m \in CreateOperations
                            THEN Prepend(resp.data, @) ELSE resp.data,
                   !.mut[m] = [error |-> Null, inProgress |-> FALSE]]
    ELSE [s EXCEPT !.data = IF m \in CreateOperations THEN EmptyList ELSE Absent,
                   !.mut[m] = [error |-> MutationErrorMessage(m, resp),
                               inProgress |-> FALSE]]

\* variant: the in-progress flag is cleared at the end of the try block
\* and not in a finally
MutationSettledNoFinally(m, s, resp) ==
    IF resp.kind = "ok"
    THEN [s EXCEPT !.data = IF m \in CreateOperations
                            THEN Prepend(resp.data, @) ELSE resp.data,
                   !.mut[m] = [error |-> Null, inProgress |-> FALSE]]
    ELSE [s EXCEPT !.mut[m].error = MutationErrorMessage(m, resp)]

\* the hook state after the code that follows the await, with catch and
\* finally
MutationSettled(m, s, resp) ==
    IF resp.kind = "ok"
    THEN [s EXCEPT !.data = IF m \in CreateOperations
                            THEN Prepend(resp.data, @) ELSE resp.data,
                   !.mut[m] = [error |-> Null, inProgress |-> FALSE]]
    ELSE [s EXCEPT !.mut[m] = [error |-> MutationErrorMessage(m, resp),
                               inProgress |-> FALSE]]

\* the records a successful write operation is answered with
MutationRecords(m) ==
    IF m \in CreateOperations THEN {Str("n1"), Str("n2")}
    ELSE {Obj(<< <<"bio", Str("new")>> >>)}

\* error responses drawn for a write operation
MutationErrors ==
    { Http(400, "Bad Request",
           Obj(<< <<"detail", Str("the detail")>>, <<"message", Str("the message")>> >>)),
      Http(400, "Bad Request",
           Obj(<< <<"error", Str("the error")>>,
                  <<"message", Str("a message")>>,
                  <<"detail", Str("a detail")>>,
                  <<"non_field_errors", Arr(<<"not valid">>)>>,
                  <<"bio", Arr(<<"bad bio">>)>>,
                  <<"phone_number", Arr(<<"bad phone", "too short">>)>> >>)),
      Http(400, "Bad Request",
           Obj(<< <<"non_field_errors", Arr(<<"not allowed">>)>>,
                  <<"detail", Str("the detail")>> >>)),
      Http(400, "Bad Request", Obj(<< <<"amount", Arr(<<"too large">>)>> >>)),
      Http(500, "Internal Server Error", Str("no")),
      Http(401, "Unauthorized", Absent),
      Network }

\* createTransaction, applyForLoan, createProfile, updateProfile: up to the
\* await
MutateStart(m) ==
    /\ Call
    /\ m \in MutationsOf(hook)
    /\ hk' = [hk EXCEPT !.mut[m] = [error |-> Null, inProgress |-> TRUE]]
    /\ reqs' = Send(Req(m, hook, RequestInterceptor(storage)))
    /\ settled' = NoFetch
    /\ last' = Event("mutateStart", hook, Local, "none", Null)
    /\ UNCHANGED <<storage, auth, hook, fetches>>
    /\ UNCHANGED route

\* the awaited promise of the write operation settles: the response
\* interceptor, then the operation's continuation; a failure is thrown
\* again as it was caught
MutateSettle(m, hdr, resp) ==
    /\ Req(m, hook, hdr) \in BagToSet(reqs)
    /\ reqs' = Receive(Req(m, hook, hdr))
    /\ storage' = ResponseInterceptor(storage, resp)
    /\ hk' = MutationSettled(m, hk, resp)
    /\ settled' = NoFetch
    /\ last' = Event("mutateSettle", hook, resp,
                     IF resp.kind = "ok" THEN "none" ELSE "original", hdr)
    /\ UNCHANGED <<auth, hook, fetches>>
    /\ UNCHANGED route
    /\ UNCHANGED calls

(***************************************************************************)
(* AccountProfilePage: the submit handler of the profile form              *)
(***************************************************************************)
\* the component whose handler issued a request
ProfilePage == "AccountProfilePage"

\* variant: the form always creates
SubmitOperationAlwaysCreate(profile) == "createProfile"

\* if (profile) updateProfile(...) else createProfile(...)
SubmitOperation(profile) ==
    IF Truthy(profile) THEN "updateProfile" ELSE "createProfile"

\* what handleProfileSubmit raises to React when the awaited operation
\* raised `raised`: its catch block is empty
SubmitRaised(raised) == "none"

\* handleProfileSubmit up to the await: the chosen operation runs up to
\* its own await
HandleProfileSubmit ==
    /\ Call
    /\ hook = "useProfile"
    /\ LET m == SubmitOperation(hk.data) IN
         /\ hk' = [hk EXCEPT !.mut[m] = [error |-> Null, inProgress |-> TRUE]]
         /\ reqs' = Send(Req(m, ProfilePage, RequestInterceptor(storage)))
    /\ settled' = NoFetch
    /\ last' = Event("profileSubmit", ProfilePage, Local, "none", Null)
    /\ UNCHANGED <<storage, auth, hook, fetches>>
    /\ UNCHANGED route

\* the request of the handler settles: the response interceptor, the
\* operation's continuation, then the handler's catch
SubmitSettle(m, hdr, resp) ==
    /\ Req(m, ProfilePage, hdr) \in BagToSet(reqs)
    /\ reqs' = Receive(Req(m, ProfilePage, hdr))
    /\ storage' = ResponseInterceptor(storage, resp)
    /\ hk' = MutationSettled(m, hk, resp)
    /\ settled' = NoFetch
    /\ last' = Event("submitSettle", ProfilePage, resp,
                     SubmitRaised(IF resp.kind = "ok" THEN "none" ELSE "original"),
                     hdr)
    /\ UNCHANGED <<auth, hook, fetches>>
    /\ UNCHANGED route
    /\ UNCHANGED calls

(***************************************************************************)
(* DataTable: the sort state of the table component                        *)
(***************************************************************************)
\* a column definition; enableSorting is "true", "false" or "undefined"
\* (the optional property is omitted)
Column(id, enableSorting) == [id |-> id, enableSorting |-> enableSorting]

\* the columns props the table is rendered with; the ids of one prop are
\* distinct (they are the React keys of the header cells)
ColumnLayouts ==
    { << Column("name", "undefined"), Column("amount", "true"),
         Column("actions", "false") >>,
      << Column("name", "undefined"), Column("status", "true") >>,
      << Column("name", "false"), Column("amount", "true"),
         Column("status", "undefined"), Column("actions", "false") >> }

\* the ids handleSort is called with: those of the columns and one that no
\* column has
ColumnIds == {"name", "amount", "status", "actions", "ghost"}

SearchQueries == {"", "a"}

Unsorted == [key |-> Null, direction |-> Null]

\* useState initial values of a DataTable rendered with columns cols
TableInitial(cols) ==
    [columns |-> cols, searchQuery |-> "", sortConfig |-> Unsorted]

\* columns.find((col) => col.id === columnId): its index, 0 when undefined
Find(columns, columnId) ==
    IF \E n \in 1..Len(columns) : columns[n].id = columnId
    THEN CHOOSE n \in 1..Len(columns) :
           /\ columns[n].id = columnId
           /\ \A k \in 1..(n - 1) : columns[k].id # columnId
    ELSE 0

\* variant: descending toggles back to ascending
SortUpdaterToggle(prev, columnId) ==
    IF prev.key = columnId /\ prev.direction = "asc"
    THEN [key |-> columnId, direction |-> "desc"]
    ELSE [key |-> columnId, direction |-> "asc"]

\* the updater handleSort passes to setSortConfig
SortUpdater(prev, columnId) ==
    IF prev.key = columnId /\ prev.direction = "asc"
    THEN [key |-> columnId, direction |-> "desc"]
    ELSE IF prev.key = columnId /\ prev.direction = "desc"
    THEN Unsorted
    ELSE [key |-> columnId, direction |-> "asc"]

\* handleSort(columnId)
HandleSort(columnId) ==
    /\ hook = "DataTable"
    /\ LET n == Find(hk.columns, columnId) IN
         hk' = IF n = 0 \/ hk.columns[n].enableSorting = "false"
               THEN hk
               ELSE [hk EXCEPT !.sortConfig = SortUpdater(@, columnId)]
    /\ last' = Event("handleSort", columnId, Local, "none", Null)
    /\ UNCHANGED <<storage, auth, reqs, hook, fetches, settled>>
    /\ UNCHANGED route
    /\ UNCHANGED calls

\* the search box changes: setSearchQuery(e.target.value)
SetSearchQuery(q) ==
    /\ hook = "DataTable"
    /\ hk' = [hk EXCEPT !.searchQuery = q]
    /\ last' = Event("setSearchQuery", Null, Local, "none", Null)
    /\ UNCHANGED <<storage, auth, reqs, hook, fetches, settled>>
    /\ UNCHANGED route
    /\ UNCHANGED calls

\* the parent renders the table with another columns prop; the state of
\* the table is kept
Rerender(cols) ==
    /\ hook = "DataTable"
    /\ cols # hk.columns
    /\ hk' = [hk EXCEPT !.columns = cols]
    /\ last' = Event("rerender", Null, Local, "none", Null)
    /\ UNCHANGED <<storage, auth, reqs, hook, fetches, settled>>
    /\ UNCHANGED route
    /\ UNCHANGED calls

(***************************************************************************)
(* The router and the route guard (ProtectedRoute)                         *)
(***************************************************************************)
\* the routes of App: /login is public, /dashboard is wrapped in
\* ProtectedRoute
Locations == {"/login", "/dashboard"}
Protected(loc) == loc = "/dashboard"

\* the router is not part of the run
NoRoute == [location |-> "/login", view |-> "none", nav |-> Null]

\* a useAuth instance whose component is not mounted
Unmounted == [AuthInitial EXCEPT !.phase = "unmounted"]

\* variant: the guard lets everybody through
ProtectedRouteOpen(isAuthenticated) == "children"

\* what ProtectedRoute returns: <Navigate to="/login" replace /> or its
\* children
ProtectedRoute(isAuthenticated) ==
    IF ~isAuthenticated THEN "redirect" ELSE "children"

\* the first render of the element of location loc: a freshly mounted
\* ProtectedRoute reads the initial state of its useAuth instance
FirstRender(loc) ==
    [location |-> loc,
     view |-> IF Protected(loc) THEN ProtectedRoute(AuthInitial.isAuthenticated)
              ELSE "none",
     nav |-> Null]

\* the application is loaded at loc: every component is new and no request
\* of an earlier page is left; localStorage is kept
Load(loc) ==
    /\ Call
    /\ auth' = [i \in AuthInstances |->
                 IF i = "guard" /\ ~Protected(loc) THEN Unmounted ELSE AuthInitial]
    /\ reqs' = EmptyBag
    /\ route' = FirstRender(loc)
    /\ last' = Event("load", "guard", Local, "none", Null)
    /\ UNCHANGED storage
    /\ UNCHANGED fetchVars

\* navigate(loc) called by a page (RegisterForm, DashboardLayout)
NavigateTo(loc) ==
    /\ Call
    /\ route.nav = Null /\ loc # route.location
    /\ auth' = [auth EXCEPT !["guard"] =
                 IF Protected(loc) THEN AuthInitial ELSE Unmounted]
    /\ route' = FirstRender(loc)
    /\ last' = Event("navigate", "guard", Local, "none", Null)
    /\ UNCHANGED <<storage, reqs>>
    /\ UNCHANGED fetchVars

\* the passive effects of the commit in which ProtectedRoute was mounted,
\* children first: the effect of <Navigate> (if that is what was rendered)
\* asks the router for /login, then the mount effect of useAuth restores
\* the session from localStorage
GuardEffects ==
    /\ auth["guard"].phase = "rendered"
    /\ Protected(route.location)
    /\ route' = [route EXCEPT !.nav = IF route.view = "redirect"
                                      THEN "/login" ELSE @]
    /\ auth' = [auth EXCEPT !["guard"] =
                 IF TruthyS(storage.accessToken)
                 THEN [@ EXCEPT !.phase = "ready", !.token = storage.accessToken,
                                !.isAuthenticated = TRUE]
                 ELSE [@ EXCEPT !.phase = "ready"]]
    /\ last' = Event("guardEffects", "guard", Local, "none", Null)
    /\ UNCHANGED <<storage, reqs>>
    /\ UNCHANGED fetchVars
    /\ UNCHANGED calls

\* ProtectedRoute is rendered again with the state its effect has set,
\* before the router renders the requested location (the order of the two
\* updates depends on the priority the router gives its own update)
GuardRerender ==
    /\ auth["guard"].phase = "ready"
    /\ Protected(route.location)
    /\ route.view # ProtectedRoute(auth["guard"].isAuthenticated)
    /\ route' = [route EXCEPT !.view = ProtectedRoute(auth["guard"].isAuthenticated)]
    /\ last' = Event("guardRerender", "guard", Local, "none", Null)
    /\ UNCHANGED <<storage, auth, reqs>>
    /\ UNCHANGED fetchVars
    /\ UNCHANGED calls

\* the router renders the location that <Navigate> asked for; the element
\* of the previous location is unmounted
RouterRender ==
    /\ route.nav # Null
    /\ route' = FirstRender(route.nav)
    /\ auth' = [auth EXCEPT !["guard"] =
                 IF Protected(route.nav) THEN AuthInitial ELSE Unmounted]
    /\ last' = Event("routerRender", "guard", Local, "none", Null)
    /\ UNCHANGED <<storage, reqs>>
    /\ UNCHANGED fetchVars
    /\ UNCHANGED calls

(***************************************************************************)
(* Specifications                                                          *)
(***************************************************************************)
Init ==
    /\ storage \in [accessToken : {Null, StaleAccess},
                    refreshToken : {Null, StaleRefresh}]
    /\ auth = [i \in AuthInstances |-> AuthInitial]
    /\ reqs = EmptyBag
    /\ hook = "useTransactions"
    /\ hk = HookInitial(hook)
    /\ fetches = EmptyBag
    /\ settled = NoFetch
    /\ last = NoEvent
    /\ calls = 0
    /\ route = NoRoute

Next ==
    \/ \E i \in AuthInstances : InitEffect(i)
    \/ \E i \in Callers : LoginStart(i)
    \/ \E i \in Callers, resp \in {Ok(b) : b \in LoginBodies} \cup ErrorResponses :
            LoginSettle(i, resp)
    \/ \E i \in Callers : RegisterStart(i)
    \/ \E i \in Callers, resp \in {Ok(b) : b \in LoginBodies} \cup ErrorResponses :
            RegisterSettle(i, resp)
    \/ \E i \in Callers, data \in PasswordInputs : ChangePasswordStart(i, data)
    \/ \E i \in Callers, hdr \in Headers,
          resp \in {Ok(Absent)} \cup ErrorResponses :
            ChangePasswordSettle(i, hdr, resp)
    \/ \E i \in Callers : Logout(i)
    \/ ClientStart
    \/ \E hdr \in Headers, resp \in {Ok(Absent)} \cup ErrorResponses :
            ClientSettle(hdr, resp)


\* the session: useAuth, localStorage and the shared client
Spec == Init /\ [][Next]_vars

InitFetch ==
    /\ storage \in {ClearedStorage,
                    [accessToken |-> StaleAccess, refreshToken |-> StaleRefresh]}
    /\ auth = [i \in AuthInstances |-> AuthInitial]
    /\ reqs = EmptyBag
    /\ hook \in FetchHooks
    /\ hk = HookInitial(hook)
    /\ fetches = EmptyBag
    /\ settled = NoFetch
    /\ last = NoEvent
    /\ calls = 0
    /\ route = NoRoute

NextFetch ==
    \/ FetchStart
    \/ \E f \in InFlightFetches, resp \in FetchResponses : FetchArrive(f, resp)
    \/ \E f \in InFlightFetches : FetchSettle(f)

\* one data-fetching hook instance and the shared client
SpecFetch == InitFetch /\ [][NextFetch]_vars

InitRoute ==
    /\ storage \in [accessToken : {Null, StaleAccess},
                    refreshToken : {Null, StaleRefresh}]
    /\ \E loc \in Locations :
          /\ route = FirstRender(loc)
          /\ auth = [i \in AuthInstances |->
                      IF i = "guard" /\ ~Protected(loc) THEN Unmounted
                      ELSE AuthInitial]
    /\ reqs = EmptyBag
    /\ hook = "useTransactions"
    /\ hk = HookInitial(hook)
    /\ fetches = EmptyBag
    /\ settled = NoFetch
    /\ last = NoEvent
    /\ calls = 0

NextRoute ==
    \/ \E loc \in Locations : Load(loc)
    \/ \E loc \in Locations : NavigateTo(loc)
    \/ GuardEffects
    \/ GuardRerender
    \/ RouterRender
    \/ \E i \in Callers : InitEffect(i)
    \/ \E i \in Callers : LoginStart(i)
    \/ \E i \in Callers, resp \in {Ok(b) : b \in LoginBodies} \cup ErrorResponses :
            LoginSettle(i, resp)
    \/ \E i \in Callers : Logout(i)

\* the router, the route guard and the session
SpecRoute == InitRoute /\ [][NextRoute]_vars

InitMutate ==
    /\ storage \in {ClearedStorage,
                    [accessToken |-> StaleAccess, refreshToken |-> StaleRefresh]}
    /\ auth = [i \in AuthInstances |-> AuthInitial]
    /\ reqs = EmptyBag
    /\ hook \in MutationHooks
    /\ hk = HookInitial(hook)
    /\ fetches = EmptyBag
    /\ settled = NoFetch
    /\ last = NoEvent
    /\ calls = 0
    /\ route = NoRoute

\* what the GET of the instance is answered with while write operations
\* are exercised
LoadedResponses ==
    { Ok(Arr(<<"x", "y">>)),
      Ok(Obj(<< <<"bio", Str("old")>> >>)),
      Http(500, "Internal Server Error", Obj(<< <<"message", Str("boom")>> >>)) }

NextMutate ==
    \/ FetchStart
    \/ \E f \in InFlightFetches, resp \in LoadedResponses : FetchArrive(f, resp)
    \/ \E f \in InFlightFetches : FetchSettle(f)
    \/ \E m \in Mutations : MutateStart(m)
    \/ \E m \in Mutations, hdr \in Headers :
          \E resp \in {Ok(b) : b \in MutationRecords(m)} \cup MutationErrors :
            MutateSettle(m, hdr, resp)

\* one hook instance with its fetch and its write operations
SpecMutate == InitMutate /\ [][NextMutate]_vars

\* what login and registerUser are answered with while every write
\* operation is exercised
WriteResponses ==
    { Ok(Body("t1", Null, Null, Null, "t2")),
      Ok(Body(Null, Null, Null, Null, Null)) } \cup ErrorResponses

\* what a write operation of the hooks is answered with there
WriteMutationResponses(m) ==
    {Ok(b) : b \in MutationRecords(m)}
      \cup {r \in MutationErrors : r.status \in {0, 401}}

InitWrite ==
    /\ storage = [accessToken |-> StaleAccess, refreshToken |-> StaleRefresh]
    /\ auth = [i \in AuthInstances |-> AuthInitial]
    /\ reqs = EmptyBag
    /\ hook \in MutationHooks
    /\ hk = HookInitial(hook)
    /\ fetches = EmptyBag
    /\ settled = NoFetch
    /\ last = NoEvent
    /\ calls = 0
    /\ route = NoRoute

NextWrite ==
    \/ \E i \in Callers : InitEffect(i)
    \/ \E i \in Callers : LoginStart(i)
    \/ \E i \in Callers, resp \in WriteResponses : LoginSettle(i, resp)
    \/ \E i \in Callers : RegisterStart(i)
    \/ \E i \in Callers, resp \in WriteResponses : RegisterSettle(i, resp)
    \/ \E i \in Callers, data \in PasswordInputs : ChangePasswordStart(i, data)
    \/ \E i \in Callers, hdr \in Headers,
          resp \in {Ok(Absent)} \cup ErrorResponses :
            ChangePasswordSettle(i, hdr, resp)
    \/ \E m \in Mutations : MutateStart(m)
    \/ \E m \in Mutations, hdr \in Headers :
          \E resp \in WriteMutationResponses(m) : MutateSettle(m, hdr, resp)

\* every write operation: those of useAuth and those of the hooks
SpecWrite == InitWrite /\ [][NextWrite]_vars

InitSort ==
    /\ storage = ClearedStorage
    /\ auth = [i \in AuthInstances |-> AuthInitial]
    /\ reqs = EmptyBag
    /\ hook = "DataTable"
    /\ hk \in {TableInitial(cols) : cols \in ColumnLayouts}
    /\ fetches = EmptyBag
    /\ settled = NoFetch
    /\ last = NoEvent
    /\ calls = 0
    /\ route = NoRoute

NextSort ==
    \/ \E columnId \in ColumnIds : HandleSort(columnId)
    \/ \E q \in SearchQueries : SetSearchQuery(q)
    \/ \E cols \in ColumnLayouts : Rerender(cols)

\* one DataTable instance
SpecSort == InitSort /\ [][NextSort]_vars

InitSettle ==
    /\ storage = [accessToken |-> StaleAccess, refreshToken |-> StaleRefresh]
    /\ auth = [i \in AuthInstances |-> AuthInitial]
    /\ reqs = EmptyBag
    /\ hook \in MutationHooks
    /\ hk = HookInitial(hook)
    /\ fetches = EmptyBag
    /\ settled = NoFetch
    /\ last = NoEvent
    /\ calls = 0
    /\ route = NoRoute

\* what the requests are answered with while the in-progress flags are
\* followed: a success and a failure of each
PasswordOutcomes == {Ok(Absent), Http(401, "Unauthorized", Absent)}
FetchOutcomes == {Ok(Arr(<<"x">>)), Network}
MutationOutcomes(m) ==
    {Ok(b) : b \in MutationRecords(m) \ {Str("n2")}} \cup {Network}
\* a valid input and one that fails the validation
SettlePasswordInputs == {d \in PasswordInputs : d.new_password = "abcdef"}

\* the calls of the operations
Starts ==
    \/ \E i \in Callers : InitEffect(i)
    \/ \E i \in Callers, data \in SettlePasswordInputs :
          ChangePasswordStart(i, data)
    \/ FetchStart
    \/ \E m \in Mutations : MutateStart(m)

\* the steps by which a dispatched request settles
PasswordSettles ==
    \E i \in Callers, hdr \in Headers, resp \in PasswordOutcomes :
       ChangePasswordSettle(i, hdr, resp)

FetchArrives ==
    \E f \in InFlightFetches, resp \in FetchOutcomes : FetchArrive(f, resp)

FetchSettles == \E f \in InFlightFetches : FetchSettle(f)

MutateSettles ==
    \E m \in Mutations, hdr \in Headers :
       \E resp \in MutationOutcomes(m) : MutateSettle(m, hdr, resp)

NextSettle ==
    \/ Starts
    \/ PasswordSettles
    \/ FetchArrives
    \/ FetchSettles
    \/ MutateSettles

\* every dispatched request eventually settles: the shared client times
\* out after 10 s, and the response or failure of a request is delivered
\* to the continuation that awaits it
SettleFairness ==
    /\ WF_vars(PasswordSettles)
    /\ WF_vars(FetchArrives)
    /\ WF_vars(FetchSettles)
    /\ WF_vars(MutateSettles)

\* changePassword and the operations of one hook instance, with every
\* request settling
SpecSettle == InitSettle /\ [][NextSettle]_vars /\ SettleFairness

InitSubmit ==
    /\ storage \in {ClearedStorage,
                    [accessToken |-> StaleAccess, refreshToken |-> StaleRefresh]}
    /\ auth = [i \in AuthInstances |-> AuthInitial]
    /\ reqs = EmptyBag
    /\ hook = "useProfile"
    /\ hk = HookInitial(hook)
    /\ fetches = EmptyBag
    /\ settled = NoFetch
    /\ last = NoEvent
    /\ calls = 0
    /\ route = NoRoute

\* what GET /profiles is answered with while the form is exercised
ProfileResponses ==
    { Ok(Obj(<< <<"bio", Str("old")>> >>)),
      Http(404, "Not Found", Obj(<< <<"detail", Str("Not found.")>> >>)),
      Http(500, "Internal Server Error", Obj(<< <<"message", Str("boom")>> >>)) }

NextSubmit ==
    \/ FetchStart
    \/ \E f \in InFlightFetches, resp \in ProfileResponses : FetchArrive(f, resp)
    \/ \E f \in InFlightFetches : FetchSettle(f)
    \/ HandleProfileSubmit
    \/ \E m \in MutationsOf("useProfile"), hdr \in Headers :
          \E resp \in {Ok(b) : b \in MutationRecords(m)} \cup MutationErrors :
            SubmitSettle(m, hdr, resp)

\* the profile page: its fetch and its form
SpecSubmit == InitSubmit /\ [][NextSubmit]_vars

InitMount ==
    /\ storage \in {ClearedStorage,
                    [accessToken |-> StaleAccess, refreshToken |-> StaleRefresh]}
    /\ auth = [i \in AuthInstances |-> AuthInitial]
    /\ reqs = EmptyBag
    /\ hook \in ListHooks
    /\ hk = HookInitial(hook)
    /\ fetches = EmptyBag
    /\ settled = NoFetch
    /\ last = NoEvent
    /\ calls = 0
    /\ route = NoRoute

\* what the GET of a list is answered with while the life cycle is
\* exercised
MountResponses ==
    { Ok(Arr(<<"x">>)),
      Ok(Obj(<< <<"results", Arr(<<"y">>)>> >>)),
      Http(500, "Internal Server Error", Obj(<< <<"message", Str("boom")>> >>)),
      Network }

NextMount ==
    \/ MountEffect
    \/ Refetch
    \/ \E f \in InFlightFetches, resp \in MountResponses : FetchArrive(f, resp)
    \/ \E f \in InFlightFetches : FetchSettle(f)
    \/ Unmount

\* a component that uses one list hook, from its first render to after its
\* unmount
SpecMount == InitMount /\ [][NextMount]_vars

(***************************************************************************)
(* Properties of the data-fetching hooks (checked under SpecFetch)         *)
(***************************************************************************)
\* the fetch whose continuation just ran was superseded by a newer fetch of
\* the same list hook instance
StaleSettle == last.op = "fetchSettle" /\ hook \in ListHooks /\ ~settled.latest

StaleFetchWritesNothing ==
    [][ StaleSettle' => /\ hk'.data = hk.data
                        /\ hk'.error = hk.error
                        /\ hk'.isError = hk.isError ]_vars

\* the most recent fetch of a list hook instance just settled with its
\* response: data and error are those of that response
LatestFetchDecides ==
    (last.op = "fetchSettle" /\ hook \in ListHooks /\ settled.latest
       /\ ~settled.aborted)
    => /\ settled.arrived
       /\ (settled.resp.kind = "ok" /\ settled.resp.data.t = "arr")
            => (hk.data = settled.resp.data /\ hk.error = Null /\ ~hk.isError)
       /\ settled.resp.kind \in {"http", "network"}
            => /\ hk.data = EmptyList
               /\ IF hook \in FlagHooks THEN hk.isError ELSE hk.error # Null
       /\ (settled.resp.kind = "network" /\ hook \notin FlagHooks)
            => hk.error = "Network error. Please check your connection."

\* C1: in a list-fetching hook instance, the settlement of a fetch that was
\* superseded by a newer fetch (whatever the transport holds for it) never
\* writes the instance's data or error fields, and when the newest fetch
\* settles the fields are those of its own outcome.
SupersededFetchHasNoEffect == StaleFetchWritesNothing /\ []LatestFetchDecides

\* a superseded fetch whose response [x] the transport already held settles
\* after the newer fetch delivered [y]: the data is still [y]
SupersededFetchSettled ==
    /\ StaleSettle
    /\ settled.arrived /\ settled.resp.kind = "ok"
    /\ settled.resp.data = Arr(<<"x">>)
    /\ hk.data = Arr(<<"y">>)

\* C2: in a list-fetching hook instance isLoading is true whenever the most
\* recently started fetch has not settled yet (a superseded fetch's
\* completion never changes isLoading).
LoadingWhileLatestInFlight ==
    (hook \in ListHooks /\ \E f \in InFlightFetches : f.latest) => hk.isLoading

\* the number of requests of the hook instance in flight and not cancelled
LiveFetches ==
    BagCardinality([f \in {g \in InFlightFetches : ~g.aborted} |-> fetches[f]])

\* C3: for every data-fetching hook instance at most one fetch request is in
\* flight and not cancelled.
AtMostOneLiveFetch == LiveFetches <= 1

\* the latest fetch of the instance just settled with a response or a
\* failure of its own (it was not cancelled)
LatestSettled ==
    last.op = "fetchSettle" /\ settled.latest /\ ~settled.aborted

\* the list a response body stands for
Normalised(b) ==
    IF b.t = "arr" THEN b
    ELSE IF b.t = "obj" /\ Get(b, "results").t = "arr" THEN Get(b, "results")
    ELSE EmptyList

\* C15: after a list fetch succeeded the list held by the hook is the body
\* itself when the body is a list, the inner list when the body is
\* {results: L}, and the empty list for every other body, and no error is
\* recorded.
ListResponseNormalised ==
    (LatestSettled /\ hook \in ListHooks /\ settled.resp.kind = "ok")
    => /\ hk.data = Normalised(settled.resp.data)
       /\ hk.error = Null
       /\ ~hk.isError

\* the first truthy of the payload's message, error and detail fields, or
\* the fallback
PreferredMessage(data, fallback) ==
    OrS(AsMsg(Get(data, "message")),
    OrS(AsMsg(Get(data, "error")),
    OrS(AsMsg(Get(data, "detail")), fallback)))

\* C16: after a fetch failed with a server response the recorded error is
\* the first present of the payload's message, error and detail fields,
\* else a fallback built from the status text; after a failure without
\* response it is the fixed network message.
FetchErrorFollowsHierarchy ==
    (LatestSettled /\ hook \notin FlagHooks)
    => /\ settled.resp.kind = "http"
            => hk.error = PreferredMessage(settled.resp.data,
                              FetchFailedPrefix(hook) \o settled.resp.statusText)
       /\ settled.resp.kind = "network"
            => hk.error = "Network error. Please check your connection."

(***************************************************************************)
(* Properties of the session (checked under Spec)                          *)
(***************************************************************************)
\* C4: once a response with status 401 has been received, whichever
\* operation issued the request, both persisted token slots are absent.
TokensAbsentAfter401 ==
    (last.kind = "http" /\ last.status = 401) => storage = ClearedStorage

\* C5: after the shared client has processed a 401 response, isAuthenticated
\* is false and the in-memory token is null in every useAuth instance.
UnauthenticatedAfterClient401 ==
    (last.op = "clientSettle" /\ last.status = 401)
    => \A i \in AuthInstances :
          ~auth[i].isAuthenticated /\ auth[i].token = Null

\* instance i's authenticated flag turns from true to false in this step
FlagDropped(i) == auth[i].isAuthenticated /\ ~auth'[i].isAuthenticated

\* a persisted token is removed in this step
TokenRemoved ==
    \/ TruthyS(storage.accessToken) /\ ~TruthyS(storage'.accessToken)
    \/ TruthyS(storage.refreshToken) /\ ~TruthyS(storage'.refreshToken)

\* C6 as stated: only logout() or a 401 response observed by the shared
\* client turns an authenticated flag from true to false or removes a
\* persisted token.
SessionEndsOnlyByLogoutOr401 ==
    [][ ((\E i \in AuthInstances : FlagDropped(i)) \/ TokenRemoved)
          => \/ last'.op = "logout"
             \/ last'.op = "clientSettle" /\ last'.status = 401 ]_vars

\* C6 (amended): an instance's authenticated flag turns from true to false
\* only in its own logout(), failed login or failed registration; a
\* persisted token is removed only by logout(), a failed login, or a 401
\* response observed by the shared client.
SessionEndsOnlyByListedEvents ==
    [][ /\ \A i \in AuthInstances :
              FlagDropped(i)
              => /\ last'.inst = i
                 /\ \/ last'.op = "logout"
                    \/ /\ last'.op \in {"loginSettle", "registerSettle"}
                       /\ last'.raised # "none"
        /\ TokenRemoved
              => \/ last'.op = "logout"
                 \/ last'.op = "loginSettle" /\ last'.raised # "none"
                 \/ last'.op = "clientSettle" /\ last'.status = 401 ]_vars

\* a login fails on an authenticated session with a stored token: the flag
\* is dropped and the tokens are removed
FailedLoginEndedSession ==
    /\ last.op = "loginSettle" /\ last.raised # "none"
    /\ last.wasAuth /\ TruthyS(last.before)
    /\ ~auth[last.inst].isAuthenticated
    /\ storage = ClearedStorage

\* C7: when a request sent through the shared client before a login
\* receives a 401 after that login has stored its tokens, the tokens are
\* removed and no useAuth state changes (isAuthenticated stays true).
StaleUnauthorizedClearsFreshTokens ==
    [][ ( /\ last'.op = "clientSettle" /\ last'.status = 401
          /\ storage.accessToken \in Tokens
          /\ last'.hdr # "Bearer " \o storage.accessToken )
        => (storage' = ClearedStorage /\ auth' = auth) ]_vars

\* the 401 of a request dispatched before the login removed the tokens the
\* login stored, and the instance that logged in is still authenticated
FreshTokensClearedByStale401 ==
    /\ last.op = "clientSettle" /\ last.status = 401
    /\ last.before \in Tokens
    /\ last.hdr \in {Null, "Bearer " \o StaleAccess}
    /\ storage = ClearedStorage
    /\ auth["form"].isAuthenticated /\ auth["form"].token = last.before

\* the first truthy element of a sequence of string-or-null slots
RECURSIVE FirstPresent(_)
FirstPresent(q) ==
    IF Len(q) = 0 THEN Null
    ELSE IF TruthyS(q[1]) THEN q[1]
    ELSE FirstPresent(Tail(q))

AccessIn(b) == FirstPresent(<<b.access, b.token, b.tokens.access>>)
RefreshIn(b) == FirstPresent(<<b.refresh, b.tokens.refresh>>)

TokenResponse ==
    last.op \in {"loginSettle", "registerSettle"} /\ last.kind = "ok"

\* C8: on a successful login or register response the access token is the
\* first present of access, token, tokens.access and the refresh token the
\* first present of refresh, tokens.refresh; when an access token is found
\* they are persisted, the in-memory token equals the persisted access
\* token and isAuthenticated is true.
TokensPersistedFromResponse ==
    (TokenResponse /\ AccessIn(last.body) # Null)
    => /\ storage.accessToken = AccessIn(last.body)
       /\ RefreshIn(last.body) # Null
            => storage.refreshToken = RefreshIn(last.body)
       /\ auth[last.inst].token = storage.accessToken
       /\ auth[last.inst].isAuthenticated
       /\ last.body = Body("t1", Null, Null, Null, "t2")
            => storage = [accessToken |-> "t1", refreshToken |-> "t2"]
       /\ last.body = Body(Null, Null, "t2", Null, Null)
            => storage.accessToken = "t2"

\* login answered {access: t1, refresh: t2}
LoginPersistedBothTokens ==
    /\ last.op = "loginSettle"
    /\ last.body = Body("t1", Null, Null, Null, "t2")
    /\ storage = [accessToken |-> "t1", refreshToken |-> "t2"]
    /\ auth["form"].isAuthenticated /\ auth["form"].token = "t1"

\* C9: a login whose successful response holds no access token raises an
\* error saying that no access token was received, leaves isAuthenticated
\* false and the in-memory token null, persists no token and ends with
\* isLoading false.
LoginWithoutTokenFails ==
    (last.op = "loginSettle" /\ last.kind = "ok" /\ AccessIn(last.body) = Null)
    => /\ last.raised = "No access token received from server"
       /\ ~auth[last.inst].isAuthenticated
       /\ auth[last.inst].token = Null
       /\ storage = ClearedStorage
       /\ ~auth[last.inst].isLoading

\* an authenticated instance logs in again and the response is {}
LoginAnsweredWithoutToken ==
    /\ last.op = "loginSettle"
    /\ last.body = Body(Null, Null, Null, Null, Null)
    /\ last.wasAuth
    /\ ~auth["form"].isAuthenticated

\* C10: a registerUser call whose successful response holds no access token
\* does not raise, leaves error null, persists nothing and leaves the
\* authenticated flag and the in-memory token as they were.
RegisterWithoutTokenTolerated ==
    [][ ( /\ last'.op = "registerSettle" /\ last'.kind = "ok"
          /\ AccessIn(last'.body) = Null )
        => /\ last'.raised = "none"
           /\ auth'[last'.inst].error = Null
           /\ storage' = storage
           /\ auth'[last'.inst].isAuthenticated = auth[last'.inst].isAuthenticated
           /\ auth'[last'.inst].token = auth[last'.inst].token ]_vars

\* registerUser was answered with a refresh token and no access token
RegisterAnsweredWithoutToken ==
    /\ last.op = "registerSettle"
    /\ last.body = Body(Null, Null, Null, Null, "t2")
    /\ last.raised = "none"
    /\ storage = ClearedStorage
    /\ ~auth["form"].isAuthenticated /\ auth["form"].error = Null

\* C11: changePassword fails before any request is issued, with the mismatch
\* message when new_password differs from confirm_password and with the
\* minimum-length message when they are equal and new_password has fewer
\* than 6 characters: no request is made, passwordChangeError holds the
\* message, the call raises it, and isChangingPassword is false afterwards.
PasswordValidationFailsLocally ==
    [][ last'.op \in {"changePasswordLocal", "changePasswordStart"} =>
        \A i \in Callers, data \in PasswordInputs :
          LET mismatch == data.new_password # data.confirm_password
              short == ~mismatch /\ Len(data.new_password) < 6
              msg == IF mismatch THEN "New passwords do not match"
                     ELSE "New password must be at least 6 characters long"
          IN  (ChangePasswordStart(i, data) /\ (mismatch \/ short))
              => /\ reqs' = reqs
                 /\ storage' = storage
                 /\ auth'[i].passwordChangeError = msg
                 /\ last'.raised = msg
                 /\ ~auth'[i].isChangingPassword ]_vars

\* a five-character password was rejected while an access token was stored,
\* and nothing is in flight
ShortPasswordRejected ==
    /\ last.op = "changePasswordLocal"
    /\ last.raised = "New password must be at least 6 characters long"
    /\ TruthyS(storage.accessToken)
    /\ auth["form"].passwordChangeError = last.raised
    /\ ~auth["form"].isChangingPassword
    /\ reqs = EmptyBag

\* C12: logout() removes both persisted tokens, sets the caller's in-memory
\* token to null and its isAuthenticated to false, and issues no request,
\* in one step and whatever requests are in flight.
LogoutClearsSession ==
    [][ last'.op = "logout"
        => /\ storage' = ClearedStorage
           /\ auth'[last'.inst].token = Null
           /\ ~auth'[last'.inst].isAuthenticated
           /\ reqs' = reqs ]_vars

\* an authenticated instance logged out while a login request and a request
\* of the shared client were in flight
LoggedOutWhileRequestsInFlight ==
    /\ last.op = "logout" /\ last.wasAuth /\ TruthyS(last.before)
    /\ storage = ClearedStorage
    /\ ~auth["form"].isAuthenticated /\ auth["form"].token = Null
    /\ \E r \in BagToSet(reqs) : r.op = "login"
    /\ \E r \in BagToSet(reqs) : r.op = "client"

(***************************************************************************)
(* Properties of the route guard (checked under SpecRoute)                 *)
(***************************************************************************)
GuardMounted == auth["guard"].phase \in {"rendered", "ready"}

\* C13: ProtectedRoute has rendered its children only if the isAuthenticated
\* flag it reads is true, and while that flag is false what it has rendered
\* is the redirect to /login.
GuardIsPredicateOfFlag ==
    /\ route.view = "children" => (GuardMounted /\ auth["guard"].isAuthenticated)
    /\ (GuardMounted /\ ~auth["guard"].isAuthenticated) => route.view = "redirect"
    /\ route.view # "none" <=> GuardMounted

\* after a login stored a token the page navigated to /dashboard: the guard,
\* whose flag is still false, rendered the redirect
GuardRedirectedUnauthenticated ==
    /\ last.op = "navigate" /\ route.location = "/dashboard"
    /\ storage.accessToken \in Tokens
    /\ GuardMounted /\ ~auth["guard"].isAuthenticated
    /\ route.view = "redirect"

\* C14: when the guard is mounted on a protected route with an access token
\* in localStorage, the session is restored (isAuthenticated true, token
\* equal to the stored one) and no redirect to /login is requested.
StoredSessionRestoredWithoutRedirect ==
    [][ (last'.op = "guardEffects" /\ TruthyS(storage.accessToken))
        => /\ auth'["guard"].isAuthenticated
           /\ auth'["guard"].token = storage.accessToken
           /\ route'.nav = Null ]_vars

(***************************************************************************)
(* Properties of the write operations (checked under SpecMutate and        *)
(* SpecWrite)                                                              *)
(***************************************************************************)
\* the fields of the hook that its fetch maintains
FetchSide(s) == <<s.data, s.error, s.isLoading, s.isError, s.ref>>

\* C17: a failed write operation (createTransaction, applyForLoan,
\* createProfile, updateProfile) leaves the hook's loaded data and its
\* fetch-side error and isLoading unchanged, from the call to the failure;
\* it changes only its own error field and in-progress flag.
FailedMutationKeepsLoadedState ==
    [][ \A m \in Mutations :
          /\ (last'.op = "mutateStart" /\ MutateStart(m))
                => /\ FetchSide(hk') = FetchSide(hk)
                   /\ \A o \in MutationsOf(hook) \ {m} : hk'.mut[o] = hk.mut[o]
          /\ (last'.op = "mutateSettle" /\ last'.kind # "ok")
                => \A hdr \in Headers, resp \in MutationErrors :
                     MutateSettle(m, hdr, resp)
                     => /\ FetchSide(hk') = FetchSide(hk)
                        /\ \A o \in MutationsOf(hook) \ {m} :
                              hk'.mut[o] = hk.mut[o]
                        /\ fetches' = fetches ]_vars

\* a write operation failed while the list [x, y] was loaded and another
\* fetch was in flight: the list and isLoading are as they were
MutationFailedOverLoadedList ==
    /\ last.op = "mutateSettle" /\ last.raised = "original"
    /\ hk.data = Arr(<<"x", "y">>)
    /\ hk.isLoading /\ fetches # EmptyBag
    /\ \E m \in MutationsOf(hook) : hk.mut[m].error # Null

\* C19: after a successful createTransaction / applyForLoan the list is the
\* created record followed by the previous list, after a successful
\* createProfile / updateProfile the profile is the returned record; the
\* record is returned to the caller and no GET is issued.
CreatedRecordPrepended ==
    [][ last'.op = "mutateSettle" =>
        \A m \in Mutations, hdr \in Headers :
          \A resp \in {Ok(b) : b \in MutationRecords(m)} :
            MutateSettle(m, hdr, resp)
            => /\ m \in CreateOperations
                    => /\ hk.data.t = "arr"
                       /\ hk'.data = Arr(<<resp.data.s>> \o hk.data.els)
               /\ m \notin CreateOperations => hk'.data = resp.data
               /\ last'.body = resp.data /\ last'.raised = "none"
               /\ hk'.mut[m].error = Null
               /\ fetches' = fetches ]_vars

\* n1 was created while [x, y] was loaded
RecordCreatedOverLoadedList ==
    /\ last.op = "mutateSettle" /\ last.kind = "ok"
    /\ last.body = Str("n1")
    /\ hk.data = Arr(<<"n1", "x", "y">>)
    /\ fetches = EmptyBag

\* the message the probing order of C20 selects from payload d, where the
\* order determines it
OrderedMessage(d) ==
    IF Truthy(Get(d, "phone_number")) THEN FirstOrSelf(Get(d, "phone_number"))
    ELSE IF Truthy(Get(d, "bio")) THEN FirstOrSelf(Get(d, "bio"))
    ELSE IF Truthy(Get(d, "non_field_errors"))
         THEN FirstOrSelf(Get(d, "non_field_errors"))
    ELSE IF Truthy(Get(d, "detail")) THEN AsMsg(Get(d, "detail"))
    ELSE IF Truthy(Get(d, "message")) THEN AsMsg(Get(d, "message"))
    ELSE IF Truthy(Get(d, "error")) THEN AsMsg(Get(d, "error"))
    ELSE Null

\* C20: for every write operation of the hooks the message recorded for a
\* server-rejected call follows the order per-field error, non_field_errors,
\* detail, message, error (then a flattened join, a string payload, the
\* status-text fallback); a payload with detail and message yields detail.
MutationMessageFollowsOrder ==
    [][ last'.op = "mutateSettle" =>
        \A m \in Mutations, hdr \in Headers :
          \A resp \in {r \in MutationErrors : r.kind = "http"} :
            MutateSettle(m, hdr, resp)
            => /\ hk'.mut[m].error # Null
               /\ OrderedMessage(resp.data) # Null
                    => hk'.mut[m].error = OrderedMessage(resp.data) ]_vars

\* C18 as stated: every write operation that failed on its request has
\* recorded a message in its own error field and raised the failure object
\* it caught.
FailureRecordedAndRethrown ==
    (last.op \in {"loginSettle", "registerSettle", "changePasswordSettle",
                  "mutateSettle"}
       /\ last.kind \in {"http", "network"})
    => /\ last.raised = "original"
       /\ last.op \in {"loginSettle", "registerSettle"}
            => auth[last.inst].error # Null
       /\ last.op = "changePasswordSettle"
            => auth[last.inst].passwordChangeError # Null
       /\ last.op = "mutateSettle"
            => \E m \in MutationsOf(hook) : hk.mut[m].error # Null

\* C18 (amended): every write operation that fails records a message in its
\* own error field and raises; registerUser, changePassword (on its request
\* or for want of a token) and the hooks' write operations raise the
\* failure they caught, login raises a new error that carries the recorded
\* message, and changePassword's validation raises a new error with the
\* recorded message.
FailureRecordedAndRaised ==
    [][ /\ (last'.op = "loginSettle"
              /\ (last'.kind # "ok" \/ AccessIn(last'.body) = Null))
            => /\ auth'[last'.inst].error # Null
               /\ last'.raised = auth'[last'.inst].error
        /\ (last'.op = "registerSettle" /\ last'.kind # "ok")
            => /\ auth'[last'.inst].error # Null
               /\ last'.raised = "original"
        /\ (last'.op = "changePasswordSettle" /\ last'.kind # "ok")
            => /\ auth'[last'.inst].passwordChangeError # Null
               /\ last'.raised = "original"
        /\ last'.op = "changePasswordLocal"
            => /\ auth'[last'.inst].passwordChangeError # Null
               /\ last'.raised \in {"original", auth'[last'.inst].passwordChangeError}
        /\ last'.op = "mutateSettle" =>
              \A m \in Mutations, hdr \in Headers, resp \in MutationErrors :
                MutateSettle(m, hdr, resp)
                => /\ hk'.mut[m].error # Null
                   /\ last'.raised = "original" ]_vars

\* a login was rejected with 401: the message is recorded and a new error
\* with that message was raised
LoginRaisedNewError ==
    /\ last.op = "loginSettle" /\ last.status = 401
    /\ auth["form"].error = "Invalid credentials"
    /\ last.raised = "Invalid credentials"

\* the error payloads whose phone_number is a non-empty array
PhoneNumberErrors ==
    {r \in MutationErrors : /\ r.kind = "http"
                            /\ Get(r.data, "phone_number").t = "arr"
                            /\ Len(Get(r.data, "phone_number").els) > 0}

\* C21: when updateProfile is rejected with a payload whose phone_number is
\* a non-empty array, updateError is exactly the first element of that
\* array, whatever other fields (bio, non_field_errors, detail, message,
\* error) the payload carries, and never a generic fallback.
PhoneNumberErrorWins ==
    [][ last'.op = "mutateSettle" =>
        \A hdr \in Headers, resp \in PhoneNumberErrors :
          MutateSettle("updateProfile", hdr, resp)
          => hk'.mut["updateProfile"].error
               = Get(resp.data, "phone_number").els[1] ]_vars

\* updateProfile was rejected with a payload that carries phone_number and
\* every other probed field
UpdateRejectedOnPhoneNumber ==
    /\ last.op = "mutateSettle" /\ last.status = 400
    /\ hook = "useProfile"
    /\ hk.mut["updateProfile"].error = "bad phone"
    /\ ~hk.mut["updateProfile"].inProgress

(***************************************************************************)
(* Properties of the shared client's request interceptor (checked under    *)
(* Spec)                                                                   *)
(***************************************************************************)
\* the Authorization header C22 expects for the stored access token t
ExpectedHeader(t) == IF t = Null THEN Null ELSE "Bearer " \o t

\* C22: every request through the shared client carries
\* `Authorization: Bearer <t>` exactly when an access token t is in
\* storage at the moment the request is dispatched (the value stored at
\* that moment); with no token stored it is sent without the header, and
\* nothing is raised.
HeaderFollowsStoredToken ==
    [][ last'.op = "clientStart" =>
          /\ reqs' = reqs (+) SetToBag({Req("client", Null,
                                            ExpectedHeader(storage.accessToken))})
          /\ last'.raised = "none"
          /\ storage' = storage ]_vars

\* a request was dispatched after a login replaced the token of an earlier
\* session: it carries the token stored at dispatch
RequestCarriesCurrentToken ==
    /\ last.op = "clientStart"
    /\ storage.accessToken = "t1"
    /\ Req("client", Null, "Bearer t1") \in BagToSet(reqs)
    /\ auth["form"].token = "t1"

(***************************************************************************)
(* Properties of the life cycle of the list hooks (checked under SpecMount)*)
(***************************************************************************)
\* C23: every list-fetching hook issues exactly one fetch automatically
\* when its consuming component mounts, and exposes a manual re-trigger
\* that starts a new fetch when called.
FetchOnMountAndRefetchExposed ==
    [][ /\ last'.op = "mount"
            => /\ BagCardinality(fetches') = BagCardinality(fetches) + 1
               /\ hk'.isLoading
        /\ hk'.phase = "mounted" => ExposesRefetch(hook) ]_vars

(***************************************************************************)
(* Properties of a list next to its write operation (checked under         *)
(* SpecMutate)                                                             *)
(***************************************************************************)
\* the list data holds the record rec
Holds(data, rec) ==
    data.t = "arr" /\ \E n \in 1..Len(data.els) : data.els[n] = rec

\* C24: a record prepended by a successful createTransaction / applyForLoan
\* stays in the collection until a fetch started after the create settles;
\* the settlement of a fetch that was already in flight when the create
\* succeeded does not remove it.  Stated for the step that follows the
\* create: a fetch that settles then was in flight when the create
\* succeeded.
CreatedRecordSurvivesEarlierFetch ==
    [][ ( /\ last.op = "mutateSettle" /\ last.kind = "ok"
          /\ hook \in {"useTransactions", "useLoans"}
          /\ Holds(hk.data, last.body.s)
          /\ last'.op = "fetchSettle" )
        => Holds(hk'.data, last.body.s) ]_vars

(***************************************************************************)
(* Properties of several useAuth instances and of the stored tokens        *)
(* (checked under Spec)                                                    *)
(***************************************************************************)
\* C25: right after login() succeeded or logout() was called through one
\* useAuth instance, every other mounted useAuth instance (its mount
\* effect has run) has isAuthenticated equal to "an access token is
\* persisted".
OtherInstancesFollowStorage ==
    ( \/ last.op = "logout"
      \/ last.op = "loginSettle" /\ last.kind = "ok" /\ AccessIn(last.body) # Null )
    => \A j \in AuthInstances \ {last.inst} :
          auth[j].phase = "ready"
          => (auth[j].isAuthenticated <=> TruthyS(storage.accessToken))

\* C26: after a successful login or a registration whose response holds an
\* access token, the persisted refresh token is the one of that response
\* or absent; the refresh token of an earlier session never stays next to
\* the new access token.
RefreshTokenFromResponseOrAbsent ==
    (TokenResponse /\ AccessIn(last.body) # Null)
    => /\ storage.accessToken = AccessIn(last.body)
       /\ storage.refreshToken \in {RefreshIn(last.body), Null}

InFlight(ops, inst) ==
    \E r \in BagToSet(reqs) : r.op \in ops /\ r.inst = inst

\* the in-progress flag of write operation m of the hook instance
InProgress(m) == m \in DOMAIN hk.mut /\ hk.mut[m].inProgress

\* every flag is false when no operation of its kind is in flight
IdleFlagsAreFalse ==
    /\ hk.isLoading => fetches # EmptyBag
    /\ \A m \in Mutations : InProgress(m) => InFlight({m}, hook)
    /\ \A i \in Callers :
          auth[i].isChangingPassword => InFlight({"changePassword"}, i)

\* C28: provided every dispatched request eventually settles, no loading
\* flag (isLoading, isCreating, isUpdating, isApplying, isChangingPassword)
\* stays true forever, and once no operation of its kind is in flight for
\* the hook instance the flag is false.
FlagsEventuallyFalse ==
    /\ []IdleFlagsAreFalse
    /\ hk.isLoading ~> ~hk.isLoading
    /\ \A m \in Mutations : InProgress(m) ~> ~InProgress(m)
    /\ \A i \in Callers :
          auth[i].isChangingPassword ~> ~auth[i].isChangingPassword

\* a write operation of the hook failed on the network with nothing else
\* in flight: its flag is false again
FlagClearedAfterFailure ==
    /\ last.op = "mutateSettle" /\ last.kind = "network"
    /\ reqs = EmptyBag /\ fetches = EmptyBag
    /\ \E m \in Mutations : m \in DOMAIN hk.mut /\ hk.mut[m].error = NetworkMessage
    /\ \A m \in Mutations : ~InProgress(m)

\* C29: when the component that uses a list hook unmounts while a fetch is
\* in flight, the fetch is cancelled, and after the unmount the completion
\* of that fetch writes none of the hook's state (data, error, isLoading).
UnmountCancelsAndSilencesFetch ==
    [][ /\ last'.op = "unmount"
            => \A f \in BagToSet(fetches') : f.aborted
        /\ (hk.phase = "unmounted" /\ last'.op = "fetchSettle")
            => /\ hk'.data = hk.data
               /\ hk'.error = hk.error
               /\ hk'.isLoading = hk.isLoading ]_vars

(***************************************************************************)
(* Properties of the DataTable sort state (checked under SpecSort)         *)
(***************************************************************************)
\* the column with id columnId exists in the current columns and is not
\* marked enableSorting: false
Sortable(columnId) ==
    \E n \in 1..Len(hk.columns) :
       hk.columns[n].id = columnId /\ hk.columns[n].enableSorting # "false"

\* C30: repeated handleSort on the same sortable column cycles unsorted ->
\* ascending -> descending -> unsorted; handleSort on another sortable
\* column sorts by that column ascending; handleSort on a column with
\* enableSorting false or on an unknown id leaves the state unchanged; and
\* sortConfig.key is null exactly when sortConfig.direction is null.
SortStateCycles ==
    [][ last'.op = "handleSort" =>
        LET id == last'.inst
            prev == hk.sortConfig
            next == hk'.sortConfig
        IN  /\ ~Sortable(id) => next = prev
            /\ (Sortable(id) /\ prev = Unsorted)
                  => next = [key |-> id, direction |-> "asc"]
            /\ (Sortable(id) /\ prev = [key |-> id, direction |-> "asc"])
                  => next = [key |-> id, direction |-> "desc"]
            /\ (Sortable(id) /\ prev = [key |-> id, direction |-> "desc"])
                  => next = Unsorted
            /\ (Sortable(id) /\ prev.key # id)
                  => next = [key |-> id, direction |-> "asc"]
            /\ (next.key = Null) <=> (next.direction = Null)
            /\ hk'.columns = hk.columns /\ hk'.searchQuery = hk.searchQuery ]_vars

\* a click on the header of a sortable column has returned the table to
\* unsorted: the third click of the cycle
SortCycleCompleted ==
    /\ last.op = "handleSort" /\ last.inst = "amount"
    /\ Sortable("amount")
    /\ hk.sortConfig = Unsorted
====
